---- MODULE Spec2Model ----
(***************************************************************************)
(* Model of awssso.py: the credential pipeline set_aws_creds ->            *)
(* _set_profile_credentials -> _get_aws_profile, _get_sso_cached_login,    *)
(* _get_sso_role_credentials, _store_aws_credentials,                      *)
(* _copy_to_default_profile, over the two INI files the program reads and  *)
(* rewrites with configparser.ConfigParser.                                *)
(*                                                                         *)
(* A file is the sequence of its text lines.  A ConfigParser in memory is  *)
(* a sequence of sections [name, opts], opts a sequence of <<key, value>>. *)
(* Time is counted in minutes.  Values never contain '%' or a newline and  *)
(* no file has a [DEFAULT] section (configparser's interpolation and       *)
(* fallback section are outside the model).                                *)
(***************************************************************************)
EXTENDS Integers, Sequences, FiniteSets, TLC

(***************************************************************************)
(* Text helpers: str.strip, str.lower, search of the first delimiter.      *)
(***************************************************************************)
CharAt(s, i) == SubSeq(s, i, i)

RECURSIVE LStrip(_)
LStrip(s) ==
    IF Len(s) > 0 /\ CharAt(s, 1) = " " THEN LStrip(SubSeq(s, 2, Len(s))) ELSE s

RECURSIVE RStrip(_)
RStrip(s) ==
    IF Len(s) > 0 /\ CharAt(s, Len(s)) = " " THEN RStrip(SubSeq(s, 1, Len(s) - 1)) ELSE s

Strip(s) == LStrip(RStrip(s))

UpperCase == "ABCDEFGHIJKLMNOPQRSTUVWXYZ"

LowerCase == "abcdefghijklmnopqrstuvwxyz"

LowerOf ==
    [c \in {CharAt(UpperCase, i) : i \in 1..Len(UpperCase)} |->
        CharAt(LowerCase, CHOOSE i \in 1..Len(UpperCase) : CharAt(UpperCase, i) = c)]

LowerChar(c) == IF c \in DOMAIN LowerOf THEN LowerOf[c] ELSE c

RECURSIVE Lower(_)
Lower(s) ==
    IF Len(s) = 0 THEN s ELSE LowerChar(CharAt(s, 1)) \o Lower(SubSeq(s, 2, Len(s)))

\* index of the first '=' or ':' of a line, 0 when there is none
FirstDelim(s) ==
    LET hits == {i \in 1..Len(s) : CharAt(s, i) \in {"=", ":"}}
    IN  IF hits = {} THEN 0 ELSE CHOOSE i \in hits : \A j \in hits : i <= j

(***************************************************************************)
(* configparser.ConfigParser, in memory.                                   *)
(***************************************************************************)
optionxform(k) == Lower(k)

sections(config) == [i \in 1..Len(config) |-> config[i].name]

has_section(config, name) == \E i \in 1..Len(config) : config[i].name = name

RECURSIVE remove_section(_, _)
remove_section(config, name) ==
    IF config = <<>> THEN <<>>
    ELSE IF Head(config).name = name THEN remove_section(Tail(config), name)
    ELSE <<Head(config)>> \o remove_section(Tail(config), name)

add_section(config, name) == Append(config, [name |-> name, opts |-> <<>>])

HasKey(opts, k) == \E i \in 1..Len(opts) : opts[i][1] = k

\* dict assignment: an existing key keeps its place, a new key goes last
SetKey(opts, k, v) ==
    IF HasKey(opts, k)
    THEN [i \in 1..Len(opts) |-> IF opts[i][1] = k THEN <<k, v>> ELSE opts[i]]
    ELSE Append(opts, <<k, v>>)

GetKey(opts, k, default) ==
    IF HasKey(opts, k) THEN opts[CHOOSE i \in 1..Len(opts) : opts[i][1] = k][2] ELSE default

\* config.set(section, option, value): the option name is lower-cased, not stripped
set(config, name, k, v) ==
    [i \in 1..Len(config) |->
        IF config[i].name = name
        THEN [config[i] EXCEPT !.opts = SetKey(@, optionxform(k), v)]
        ELSE config[i]]

items(config, name) ==
    config[CHOOSE i \in 1..Len(config) : config[i].name = name].opts

\* update that leaves an existing key alone (dict.setdefault for every pair)
RECURSIVE update_keep(_, _)
update_keep(d, pairs) ==
    IF pairs = <<>> THEN d
    ELSE update_keep(IF HasKey(d, Head(pairs)[1]) THEN d
                     ELSE SetKey(d, Head(pairs)[1], Head(pairs)[2]), Tail(pairs))

\* dict.update(pairs): every pair is assigned in turn
RECURSIVE update(_, _)
update(d, pairs) ==
    IF pairs = <<>> THEN d
    ELSE update(SetKey(d, Head(pairs)[1], Head(pairs)[2]), Tail(pairs))

(***************************************************************************)
(* _read_config / _write_config: the text format of ConfigParser.          *)
(***************************************************************************)
IsHeader(line) == Len(line) >= 3 /\ CharAt(line, 1) = "[" /\ CharAt(line, Len(line)) = "]"

ParseKey(line) ==
    LET d == FirstDelim(line)
    IN  optionxform(RStrip(IF d = 0 THEN line ELSE SubSeq(line, 1, d - 1)))

ParseValue(line) ==
    LET d == FirstDelim(line)
    IN  IF d = 0 THEN "" ELSE Strip(SubSeq(line, d + 1, Len(line)))

RECURSIVE ParseLines(_, _)
ParseLines(lines, config) ==
    IF lines = <<>> THEN config
    ELSE LET line == Strip(Head(lines))
         IN  IF line = "" THEN ParseLines(Tail(lines), config)
             ELSE IF IsHeader(line)
             THEN ParseLines(Tail(lines), add_section(config, SubSeq(line, 2, Len(line) - 1)))
             ELSE ParseLines(Tail(lines),
                    [config EXCEPT ![Len(config)].opts =
                        SetKey(@, ParseKey(line), ParseValue(line))])

read_config(file) == ParseLines(file, <<>>)

RECURSIVE WriteOpts(_)
WriteOpts(opts) ==
    IF opts = <<>> THEN <<>>
    ELSE <<Head(opts)[1] \o " = " \o Head(opts)[2]>> \o WriteOpts(Tail(opts))

RECURSIVE write_config(_)
write_config(config) ==
    IF config = <<>> THEN <<>>
    ELSE <<"[" \o Head(config).name \o "]">> \o WriteOpts(Head(config).opts) \o <<"">>
         \o write_config(Tail(config))

add_prefix(name) == IF name # "default" THEN "profile " \o name ELSE "default"

(***************************************************************************)
(* Program constants and the values the runs are exercised on.             *)
(***************************************************************************)
AWS_DEFAULT_REGION == "us-east-1"

\* timedelta(minutes=15) of the expiry warning
WarnWindow == 15

\* number of sequential invocations of set_aws_creds
MaxRuns == 2

ProfileNames == {"default", "work", "dev", "ops", "ghost"}

ConfigFiles ==
    { <<"[default]", "output = json", "region = ap-south-1", "",
        "[profile work]", "Region=us-west-2", "sso_session = main",
        "sso_account_id = 123456789012", "sso_role_name = Admin",
        "sso_region = us-east-2", "",
        "[sso-session main]", "sso_start_url = https://x", "sso_region = eu-west-1", "",
        "[profile dev]", "region = eu-west-3", "">>,
      <<"[default]", "sso_session = main", "sso_account_id = 123456789012",
        "sso_role_name = Admin", "",
        "[sso-session main]", "sso_start_url = https://x", "sso_region = eu-west-1", "",
        "[profile work]", "sso_session = main", "sso_account_id = 210987654321",
        "sso_role_name = ReadOnly", "">>,
      <<"[profile work]", "region = us-west-2", "sso_session = main",
        "sso_account_id = 123456789012", "sso_role_name = Admin", "",
        "[profile ops]", "sso_session = gone", "",
        "[profile dev]", "sso_session = main", "",
        "[sso-session main]", "sso_start_url = https://x", "sso_region = eu-west-1", "">>,
      <<"[sso-session main]", "sso_start_url = https://x", "sso_region = eu-west-1",
        "region = eu-central-1", "",
        "[profile work]", "region = us-west-2", "sso_session = main",
        "sso_account_id = 123456789012", "sso_role_name = Admin", "",
        "[profile dev]", "sso_session = main", "sso_account_id = 123456789012",
        "sso_role_name = Admin", "">>,
      <<>> }

CredFiles ==
    { <<>>,
      <<"[default]", "aws_access_key_id = OLDKEY", "aws_secret_access_key = OLDSECRET",
        "aws_security_token = OLDTOKEN", "",
        "[work]", "aws_access_key_id = WORKKEY", "">>,
      <<"[other]", "aws_access_key_id = OTHERKEY", "",
        "[profile default]", "x = 1", "">> }

NoToken == [token |-> "none", expiration |-> 0]

Expirations == {-1, 0, 10, 15, 16}

CachedTokens == {[token |-> "tok-abc", expiration |-> e] : e \in Expirations}

\* the tokens a successful "aws sso login" leaves in the token cache
FreshTokens == {[token |-> "tok-new", expiration |-> 480]}

NoCreds == [accessKeyId |-> "", secretAccessKey |-> "", sessionToken |-> "", expiration |-> 0]

\* roleCredentials of a response; expiration is kept in seconds (the service
\* sends milliseconds, which only the printed message uses)
RoleCreds ==
    { [accessKeyId |-> "AKIAEXAMPLE", secretAccessKey |-> "secret",
       sessionToken |-> "sess==", expiration |-> 1700000000],
      [accessKeyId |-> "AKIAOTHER", secretAccessKey |-> "hidden",
       sessionToken |-> "sess2", expiration |-> 1700000360] }

NoOpts == [kind |-> "None", opts |-> <<>>]

(***************************************************************************)
(* The pure parts of the pipeline.                                         *)
(***************************************************************************)
\* _print_error without the sys.exit(1): the caller goes on
print_error_returns == "return"

\* _print_error prints and then calls sys.exit(1)
print_error == "exit1"

\* _get_aws_profile: the profile's options merged with its sso-session's
get_aws_profile(file, name) ==
    LET config == read_config(file)
        prefixed_profile == add_prefix(name)
    IN  IF ~has_section(config, prefixed_profile)
        THEN [kind |-> print_error, opts |-> <<>>]
        ELSE LET profile_opts == items(config, prefixed_profile)
             IN  IF HasKey(profile_opts, "sso_session")
                 THEN LET session == "sso-session " \o GetKey(profile_opts, "sso_session", "")
                      IN  IF has_section(config, session)
                          THEN [kind |-> "dict",
                                opts |-> update(profile_opts, items(config, session))]
                          ELSE [kind |-> "NoSectionError", opts |-> <<>>]
                 ELSE [kind |-> "NotSSO", opts |-> <<>>]

\* use_default passed as True whatever the name
UseDefault_always(name) == TRUE

\* set_aws_creds, line 68: the use_default argument
UseDefault(name) == name # "default"

\* line 88 without the sentinel test
IsSso_always(profile) == TRUE

\* _set_profile_credentials, line 88: profile_opts != "NotSSO".  The kind
\* "return" is the bare return of line 110, reached only if _print_error
\* came back
IsSso(profile) == profile.kind # "NotSSO"

\* the test of line 139 with > for >=
ExpiryWarning_strict(t, expires_at) == t + WarnWindow > expires_at

\* the test of line 139
ExpiryWarning(t, expires_at) == t + WarnWindow >= expires_at

\* _store_aws_credentials without the remove_section of lines 168-169
store_aws_credentials_keep(file, name, profile_opts, creds) ==
    LET region == GetKey(profile_opts, "region", AWS_DEFAULT_REGION)
        c0 == read_config(file)
        c2 == IF has_section(c0, name) THEN c0 ELSE add_section(c0, name)
        c3 == set(c2, name, "region", region)
        c4 == set(c3, name, "aws_access_key_id", creds.accessKeyId)
        c5 == set(c4, name, "aws_secret_access_key ", creds.secretAccessKey)
        c6 == set(c5, name, "aws_session_token", creds.sessionToken)
    IN  write_config(c6)

\* _store_aws_credentials with the region read from sso_region
store_aws_credentials_sso_region(file, name, profile_opts, creds) ==
    LET region == GetKey(profile_opts, "sso_region", AWS_DEFAULT_REGION)
        c0 == read_config(file)
        c1 == IF has_section(c0, name) THEN remove_section(c0, name) ELSE c0
        c2 == add_section(c1, name)
        c3 == set(c2, name, "region", region)
        c4 == set(c3, name, "aws_access_key_id", creds.accessKeyId)
        c5 == set(c4, name, "aws_secret_access_key ", creds.secretAccessKey)
        c6 == set(c5, name, "aws_session_token", creds.sessionToken)
    IN  write_config(c6)

\* _store_aws_credentials on a new ConfigParser, without the read of line 166
store_aws_credentials_fresh(file, name, profile_opts, creds) ==
    LET region == GetKey(profile_opts, "region", AWS_DEFAULT_REGION)
        c2 == add_section(<<>>, name)
        c3 == set(c2, name, "region", region)
        c4 == set(c3, name, "aws_access_key_id", creds.accessKeyId)
        c5 == set(c4, name, "aws_secret_access_key ", creds.secretAccessKey)
        c6 == set(c5, name, "aws_session_token", creds.sessionToken)
    IN  write_config(c6)

\* _store_aws_credentials with the file opened in append mode
store_aws_credentials_append(file, name, profile_opts, creds) ==
    LET region == GetKey(profile_opts, "region", AWS_DEFAULT_REGION)
        c0 == read_config(file)
        c1 == IF has_section(c0, name) THEN remove_section(c0, name) ELSE c0
        c2 == add_section(c1, name)
        c3 == set(c2, name, "region", region)
        c4 == set(c3, name, "aws_access_key_id", creds.accessKeyId)
        c5 == set(c4, name, "aws_secret_access_key ", creds.secretAccessKey)
        c6 == set(c5, name, "aws_session_token", creds.sessionToken)
    IN  file \o write_config(c6)

\* lines 165-175 without the remove_section of lines 168-169
replace_section_keep(c0, name, profile_opts, creds) ==
    LET region == GetKey(profile_opts, "region", AWS_DEFAULT_REGION)
        c2 == IF has_section(c0, name) THEN c0 ELSE add_section(c0, name)
        c3 == set(c2, name, "region", region)
        c4 == set(c3, name, "aws_access_key_id", creds.accessKeyId)
        c5 == set(c4, name, "aws_secret_access_key ", creds.secretAccessKey)
    IN  set(c5, name, "aws_session_token", creds.sessionToken)

\* _store_aws_credentials, lines 165-175: the section replaced in the
\* ConfigParser c0 that line 166 read
replace_section(c0, name, profile_opts, creds) ==
    LET region == GetKey(profile_opts, "region", AWS_DEFAULT_REGION)
        c1 == IF has_section(c0, name) THEN remove_section(c0, name) ELSE c0
        c2 == add_section(c1, name)
        c3 == set(c2, name, "region", region)
        c4 == set(c3, name, "aws_access_key_id", creds.accessKeyId)
        c5 == set(c4, name, "aws_secret_access_key ", creds.secretAccessKey)
    IN  set(c5, name, "aws_session_token", creds.sessionToken)

\* _store_aws_credentials: the credentials file after the call
store_aws_credentials(file, name, profile_opts, creds) ==
    write_config(replace_section(read_config(file), name, profile_opts, creds))

RECURSIVE SetAll(_, _, _)
SetAll(config, name, pairs) ==
    IF pairs = <<>> THEN config
    ELSE SetAll(set(config, name, Head(pairs)[1], Head(pairs)[2]), name, Tail(pairs))

\* _copy_to_default_profile without the remove_section of lines 185-186
copy_to_default_profile_keep(file, name) ==
    LET c0 == read_config(file)
        c2 == IF has_section(c0, "default") THEN c0 ELSE add_section(c0, "default")
    IN  write_config(SetAll(c2, "default", items(c2, add_prefix(name))))

\* _copy_to_default_profile: the configuration file after the call
copy_to_default_profile(file, name) ==
    LET c0 == read_config(file)
        c1 == IF has_section(c0, "default") THEN remove_section(c0, "default") ELSE c0
        c2 == add_section(c1, "default")
    IN  write_config(SetAll(c2, "default", items(c2, add_prefix(name))))

\* lines 92-96 storing under the profile's prefixed name in both branches
StoreSection_own(name, use_default) == add_prefix(name)

\* the section _set_profile_credentials stores under (lines 92-96)
StoreSection(name, use_default) == IF ~use_default THEN add_prefix(name) ELSE "default"

\* DeferredRefreshableToken.get_frozen_token: a frozen token is handed back
\* as it is; otherwise the token cache is read, and the provider may reject
\* what it finds
FrozenOutcomes(frozen, store) ==
    IF frozen # NoToken THEN {[kind |-> "return", token |-> frozen]}
    ELSE IF store = NoToken
    THEN {[kind |-> "TokenRetrievalError", token |-> NoToken],
          [kind |-> "SSOTokenLoadError", token |-> NoToken]}
    ELSE {[kind |-> "return", token |-> store],
          [kind |-> "TokenRetrievalError", token |-> NoToken]}

\* no run before this one, or one that failed
NoPrev == [name |-> "", creds |-> NoCreds, ok |-> FALSE]

\* the concurrent callers of _store_aws_credentials
Writers == {1, 2}

NoWriter == [pc |-> "none", section |-> "", opts |-> <<>>, creds |-> NoCreds,
             config |-> <<>>, order |-> 0]

NoWriters == [w \in Writers |-> NoWriter]

\* the calls of _store_aws_credentials that lines 94 and 96 can make
StoreCalls ==
    { [pc |-> "called", section |-> StoreSection(name, use_default), opts |-> opts,
       creds |-> creds, config |-> <<>>, order |-> 0] :
        name \in {"default", "work"}, use_default \in BOOLEAN,
        opts \in {<<>>, << <<"region", "us-west-2">> >>}, creds \in RoleCreds }

\* SSOTokenProvider(...).load_token()
LoadOutcomes == {"token", "None", "TokenRetrievalError", "InvalidConfigError"}

(***************************************************************************)
(* State.                                                                  *)
(***************************************************************************)
VARIABLES
    configFile,      \* ~/.aws/config, as text lines
    credFile,        \* ~/.aws/credentials, as text lines
    tokenStore,      \* the cached SSO session token (NoToken when there is none)
    now,             \* datetime.now() in UTC, minutes
    pc,              \* position of the current run in _set_profile_credentials
    profile_name,    \* argument of set_aws_creds
    use_default,     \* second argument of _set_profile_credentials
    profile_opts,    \* result of _get_aws_profile
    sso_token,       \* local of _get_sso_cached_login: "None" or "token"
    frozen,          \* the frozen token held by the DeferredRefreshableToken
    auth_token,      \* result of _get_sso_cached_login
    credentials,     \* result of _get_sso_role_credentials
    outcome,         \* how the run ended: "ok" or the error that ended it
    returned,        \* what set_aws_creds returned: "None" or "credentials"
    firstLoad,       \* what the try block did: "ok", "missing" (load_token gave
                     \* None), "load_failed" / "frozen_failed" (load_token /
                     \* get_frozen_token raised TokenRetrievalError), "error"
    loadCalls,       \* calls of load_token in the run
    frozenCalls,     \* calls of get_frozen_token made on a token object in the run
    authCalls,       \* runs of "aws sso login" in the run
    exchangeCalls,   \* get_role_credentials requests in the run
    credWrites,      \* writes of the credentials file in the run
    configWrites,    \* writes of the configuration file in the run
    cloneCalls,      \* calls of _copy_to_default_profile in the run
    storedSection,   \* section name given to _store_aws_credentials in the run
    warned,          \* the expiry warning was printed in the run
    runs,            \* invocations of set_aws_creds so far
    configAtStart,   \* configuration file when the run began
    credAtStart,     \* credentials file when the run began
    prev,            \* the run before this one, if it ended well: profile, credentials
    writers          \* concurrent calls of _store_aws_credentials (SpecConc)

files == <<configFile, credFile>>

locals == <<profile_opts, sso_token, frozen, auth_token, credentials>>

counters == <<loadCalls, frozenCalls, authCalls, exchangeCalls, credWrites, configWrites,
              cloneCalls>>

vars == <<configFile, credFile, tokenStore, now, pc, profile_name, use_default,
          profile_opts, sso_token, frozen, auth_token, credentials, outcome, returned,
          firstLoad, loadCalls, frozenCalls, authCalls, exchangeCalls, credWrites,
          configWrites, cloneCalls, storedSection, warned, runs, configAtStart,
          credAtStart, prev, writers>>

\* no run has begun
Idle ==
    /\ now = 0
    /\ pc = "idle"
    /\ profile_name = ""
    /\ use_default = FALSE
    /\ profile_opts = NoOpts
    /\ sso_token = "None"
    /\ frozen = NoToken
    /\ auth_token = NoToken
    /\ credentials = NoCreds
    /\ outcome = "none"
    /\ returned = "None"
    /\ firstLoad = "none"
    /\ loadCalls = 0
    /\ frozenCalls = 0
    /\ authCalls = 0
    /\ exchangeCalls = 0
    /\ credWrites = 0
    /\ configWrites = 0
    /\ cloneCalls = 0
    /\ storedSection = ""
    /\ warned = FALSE
    /\ runs = 0
    /\ prev = NoPrev
    /\ configAtStart = configFile
    /\ credAtStart = credFile

Init ==
    /\ configFile \in ConfigFiles
    /\ credFile \in CredFiles
    /\ tokenStore \in {NoToken} \cup CachedTokens
    /\ Idle
    /\ writers = NoWriters

\* the run ends with an uncaught exception or sys.exit
Fail(err) ==
    /\ pc' = "done"
    /\ outcome' = err

(***************************************************************************)
(* set_aws_creds(profile_name): the AWS CLI v2 check, then                 *)
(* _set_profile_credentials(profile_name, profile_name != 'default').      *)
(***************************************************************************)
SetAwsCreds(name, cliV2) ==
    /\ pc \in {"idle", "done"}
    /\ runs < MaxRuns
    /\ runs' = runs + 1
    /\ profile_name' = name
    /\ use_default' = UseDefault(name)
    /\ profile_opts' = NoOpts
    /\ sso_token' = "None"
    /\ frozen' = NoToken
    /\ auth_token' = NoToken
    /\ credentials' = NoCreds
    /\ returned' = "None"
    /\ firstLoad' = "none"
    /\ loadCalls' = 0
    /\ frozenCalls' = 0
    /\ authCalls' = 0
    /\ exchangeCalls' = 0
    /\ credWrites' = 0
    /\ configWrites' = 0
    /\ cloneCalls' = 0
    /\ storedSection' = ""
    /\ warned' = FALSE
    /\ configAtStart' = configFile
    /\ credAtStart' = credFile
    /\ prev' = IF outcome = "ok"
               THEN [name |-> profile_name, creds |-> credentials, ok |-> TRUE]
               ELSE NoPrev
    /\ UNCHANGED writers
    /\ IF cliV2
       THEN pc' = "resolve" /\ outcome' = "running"
       ELSE Fail(print_error)
    /\ UNCHANGED <<configFile, credFile, tokenStore, now>>

(***************************************************************************)
(* _get_aws_profile and the test of line 88.                               *)
(***************************************************************************)
GetAwsProfile ==
    /\ pc = "resolve"
    /\ LET profile == get_aws_profile(configFile, profile_name)
       IN  /\ profile_opts' = profile
           /\ IF profile.kind \in {"exit1", "NoSectionError"}
              THEN /\ Fail(profile.kind)
                   /\ UNCHANGED returned
              ELSE IF IsSso(profile)
              THEN /\ pc' = "load"
                   /\ UNCHANGED <<outcome, returned>>
              ELSE /\ pc' = "done"
                   /\ outcome' = "ok"
                   /\ returned' = "None"
    /\ UNCHANGED <<files, tokenStore, now, profile_name, use_default, sso_token, frozen,
                   auth_token, credentials, firstLoad, counters, storedSection, warned,
                   runs, configAtStart, credAtStart>>
    /\ UNCHANGED <<prev, writers>>

(***************************************************************************)
(* _get_sso_cached_login, lines 125-133: the try block.                    *)
(***************************************************************************)
LoadToken(loaded, got) ==
    /\ pc = "load"
    /\ loadCalls' = loadCalls + 1
    /\ IF loaded = "token"
       THEN /\ sso_token' = "token"
            /\ frozenCalls' = frozenCalls + 1
            /\ got \in FrozenOutcomes(frozen, tokenStore)
            /\ IF got.kind = "return"
               THEN /\ frozen' = got.token
                    /\ firstLoad' = "ok"
                    /\ pc' = "reload"
                    /\ UNCHANGED outcome
               ELSE IF got.kind = "TokenRetrievalError"
               THEN /\ firstLoad' = "frozen_failed"
                    /\ pc' = "spawn"
                    /\ UNCHANGED <<frozen, outcome>>
               ELSE /\ firstLoad' = "error"
                    /\ Fail(got.kind)
                    /\ UNCHANGED frozen
       ELSE /\ got = [kind |-> loaded, token |-> NoToken]
            /\ UNCHANGED <<sso_token, frozen, frozenCalls>>
            /\ IF loaded = "None"
               THEN firstLoad' = "missing" /\ Fail("AttributeError")
               ELSE IF loaded = "TokenRetrievalError"
               THEN firstLoad' = "load_failed" /\ pc' = "spawn" /\ UNCHANGED outcome
               ELSE firstLoad' = "error" /\ Fail(loaded)
    /\ UNCHANGED <<files, tokenStore, now, profile_name, use_default, profile_opts,
                   auth_token, credentials, returned, authCalls, exchangeCalls,
                   credWrites, configWrites, cloneCalls, storedSection, warned, runs,
                   configAtStart, credAtStart>>
    /\ UNCHANGED <<prev, writers>>

(***************************************************************************)
(* _spawn_cli_for_auth: "aws sso login", check=True.                       *)
(***************************************************************************)
SpawnCliForAuth(ok, fresh) ==
    /\ pc = "spawn"
    /\ authCalls' = authCalls + 1
    /\ IF ok
       THEN /\ tokenStore' = fresh
            /\ pc' = "reload"
            /\ UNCHANGED outcome
       ELSE /\ Fail("CalledProcessError")
            /\ UNCHANGED tokenStore
    /\ UNCHANGED <<files, now, profile_name, use_default, locals, returned, firstLoad,
                   loadCalls, frozenCalls, exchangeCalls, credWrites, configWrites,
                   cloneCalls, storedSection, warned, runs, configAtStart, credAtStart>>
    /\ UNCHANGED <<prev, writers>>

(***************************************************************************)
(* _get_sso_cached_login, lines 135-143.                                   *)
(***************************************************************************)
FrozenToken(got) ==
    /\ pc = "reload"
    /\ IF sso_token = "None"
       THEN /\ got = [kind |-> "AttributeError", token |-> NoToken]
            /\ Fail("AttributeError")
            /\ UNCHANGED <<frozen, frozenCalls, auth_token, warned>>
       ELSE /\ got \in FrozenOutcomes(frozen, tokenStore)
            /\ frozenCalls' = frozenCalls + 1
            /\ IF got.kind = "return"
               THEN /\ frozen' = got.token
                    /\ auth_token' = got.token
                    /\ warned' = ExpiryWarning(now, got.token.expiration)
                    /\ pc' = "exchange"
                    /\ UNCHANGED outcome
               ELSE /\ Fail(got.kind)
                    /\ UNCHANGED <<frozen, auth_token, warned>>
    /\ UNCHANGED <<files, tokenStore, now, profile_name, use_default, profile_opts,
                   sso_token, credentials, returned, firstLoad, loadCalls, authCalls,
                   exchangeCalls, credWrites, configWrites, cloneCalls, storedSection,
                   runs, configAtStart, credAtStart>>
    /\ UNCHANGED <<prev, writers>>

(***************************************************************************)
(* _get_sso_role_credentials: one get_role_credentials request.            *)
(* Subscripting a profile that is not a dict raises TypeError (only a      *)
(* profile from the bare return of line 110 is one), a missing key raises  *)
(* KeyError; response = NoCreds stands for a request that raised.          *)
(***************************************************************************)
RequestKeys == {"sso_region", "sso_role_name", "sso_account_id"}

\* _get_sso_role_credentials with the request in a try block that swallows the
\* error: the caller goes on to store
GetSsoRoleCredentials_swallow(response) ==
    /\ pc = "exchange"
    /\ IF profile_opts.kind # "dict"
       THEN /\ response = NoCreds
            /\ Fail("TypeError")
            /\ UNCHANGED <<credentials, exchangeCalls>>
       ELSE IF \E k \in RequestKeys : ~HasKey(profile_opts.opts, k)
       THEN /\ response = NoCreds
            /\ Fail("KeyError")
            /\ UNCHANGED <<credentials, exchangeCalls>>
       ELSE /\ exchangeCalls' = exchangeCalls + 1
            /\ IF response = NoCreds
               THEN /\ pc' = "store"
                    /\ UNCHANGED <<credentials, outcome>>
               ELSE /\ credentials' = response
                    /\ pc' = "store"
                    /\ UNCHANGED outcome
    /\ UNCHANGED <<files, tokenStore, now, profile_name, use_default, profile_opts,
                   sso_token, frozen, auth_token, returned, firstLoad, loadCalls,
                   frozenCalls, authCalls, credWrites, configWrites, cloneCalls,
                   storedSection, warned, runs, configAtStart, credAtStart>>
    /\ UNCHANGED <<prev, writers>>

GetSsoRoleCredentials(response) ==
    /\ pc = "exchange"
    /\ IF profile_opts.kind # "dict"
       THEN /\ response = NoCreds
            /\ Fail("TypeError")
            /\ UNCHANGED <<credentials, exchangeCalls>>
       ELSE IF \E k \in RequestKeys : ~HasKey(profile_opts.opts, k)
       THEN /\ response = NoCreds
            /\ Fail("KeyError")
            /\ UNCHANGED <<credentials, exchangeCalls>>
       ELSE /\ exchangeCalls' = exchangeCalls + 1
            /\ IF response = NoCreds
               THEN /\ Fail("ClientError")
                    /\ UNCHANGED credentials
               ELSE /\ credentials' = response
                    /\ pc' = "store"
                    /\ UNCHANGED outcome
    /\ UNCHANGED <<files, tokenStore, now, profile_name, use_default, profile_opts,
                   sso_token, frozen, auth_token, returned, firstLoad, loadCalls,
                   frozenCalls, authCalls, credWrites, configWrites, cloneCalls,
                   storedSection, warned, runs, configAtStart, credAtStart>>
    /\ UNCHANGED <<prev, writers>>

(***************************************************************************)
(* _set_profile_credentials, lines 92-96: _store_aws_credentials.          *)
(* writable = FALSE: open(path, "w") raises OSError, the file is untouched *)
(***************************************************************************)
StoreAwsCredentials(writable) ==
    /\ pc = "store"
    /\ storedSection' = StoreSection(profile_name, use_default)
    /\ IF writable
       THEN /\ credFile' = store_aws_credentials(credFile, storedSection',
                                                 profile_opts.opts, credentials)
            /\ credWrites' = credWrites + 1
            /\ IF use_default
               THEN /\ pc' = "clone"
                    /\ UNCHANGED <<outcome, returned>>
               ELSE /\ pc' = "done"
                    /\ outcome' = "ok"
                    /\ returned' = "credentials"
       ELSE /\ Fail("OSError")
            /\ UNCHANGED <<credFile, credWrites, returned>>
    /\ UNCHANGED <<configFile, tokenStore, now, profile_name, use_default, locals,
                   firstLoad, loadCalls, frozenCalls, authCalls, exchangeCalls,
                   configWrites, cloneCalls, warned, runs, configAtStart, credAtStart>>
    /\ UNCHANGED <<prev, writers>>

(***************************************************************************)
(* _set_profile_credentials, lines 97-99: _copy_to_default_profile, then   *)
(* return credentials.                                                     *)
(***************************************************************************)
\* the clone step with a rollback: when the clone fails the credentials file
\* is put back as it was when the run began
CopyToDefaultProfile_rollback(writable) ==
    /\ pc = "clone"
    /\ cloneCalls' = cloneCalls + 1
    /\ IF writable
       THEN /\ configFile' = copy_to_default_profile(configFile, profile_name)
            /\ configWrites' = configWrites + 1
            /\ pc' = "done"
            /\ outcome' = "ok"
            /\ returned' = "credentials"
            /\ UNCHANGED credFile
       ELSE /\ Fail("OSError")
            /\ credFile' = credAtStart
            /\ UNCHANGED <<configFile, configWrites, returned>>
    /\ UNCHANGED <<tokenStore, now, profile_name, use_default, locals,
                   firstLoad, loadCalls, frozenCalls, authCalls, exchangeCalls,
                   credWrites, storedSection, warned, runs, configAtStart, credAtStart>>
    /\ UNCHANGED <<prev, writers>>

CopyToDefaultProfile(writable) ==
    /\ pc = "clone"
    /\ cloneCalls' = cloneCalls + 1
    /\ IF writable
       THEN /\ configFile' = copy_to_default_profile(configFile, profile_name)
            /\ configWrites' = configWrites + 1
            /\ pc' = "done"
            /\ outcome' = "ok"
            /\ returned' = "credentials"
       ELSE /\ Fail("OSError")
            /\ UNCHANGED <<configFile, configWrites, returned>>
    /\ UNCHANGED <<credFile, tokenStore, now, profile_name, use_default, locals,
                   firstLoad, loadCalls, frozenCalls, authCalls, exchangeCalls,
                   credWrites, storedSection, warned, runs, configAtStart, credAtStart>>
    /\ UNCHANGED <<prev, writers>>

Next ==
    \/ \E name \in ProfileNames, cliV2 \in BOOLEAN : SetAwsCreds(name, cliV2)
    \/ GetAwsProfile
    \/ \E loaded \in LoadOutcomes :
         \E got \in FrozenOutcomes(frozen, tokenStore)
                    \cup {[kind |-> loaded, token |-> NoToken]} : LoadToken(loaded, got)
    \/ \E ok \in BOOLEAN, fresh \in FreshTokens : SpawnCliForAuth(ok, fresh)
    \/ \E got \in FrozenOutcomes(frozen, tokenStore)
                  \cup {[kind |-> "AttributeError", token |-> NoToken]} : FrozenToken(got)
    \/ \E response \in RoleCreds \cup {NoCreds} : GetSsoRoleCredentials(response)
    \/ \E writable \in BOOLEAN : StoreAwsCredentials(writable)
    \/ \E writable \in BOOLEAN : CopyToDefaultProfile(writable)

Spec == Init /\ [][Next]_vars

(***************************************************************************)
(* Two calls of _store_aws_credentials at once on one credentials file,    *)
(* without a lock: each reads the whole file (line 166), replaces its      *)
(* section in memory (lines 168-175) and writes the whole file (line 177). *)
(* The read and the write are each taken as one step.                      *)
(***************************************************************************)
InitConc ==
    /\ configFile = <<>>
    /\ credFile \in CredFiles
    /\ tokenStore = NoToken
    /\ Idle
    /\ writers \in [Writers -> StoreCalls]

\* what the two callers leave alone
sequential == <<configFile, tokenStore, now, pc, profile_name, use_default, locals,
                outcome, returned, firstLoad, counters, storedSection, warned, runs,
                configAtStart, credAtStart, prev>>

\* line 166
ConcRead(w) ==
    /\ writers[w].pc = "called"
    /\ writers' = [writers EXCEPT ![w].pc = "read", ![w].config = read_config(credFile)]
    /\ UNCHANGED <<credFile, sequential>>

\* lines 168-177
ConcWrite(w) ==
    /\ writers[w].pc = "read"
    /\ credFile' = write_config(replace_section(writers[w].config, writers[w].section,
                                                writers[w].opts, writers[w].creds))
    /\ writers' = [writers EXCEPT
                      ![w].pc = "done",
                      ![w].order = 1 + Cardinality({v \in Writers : writers[v].pc = "done"})]
    /\ UNCHANGED sequential

NextConc ==
    \/ \E w \in Writers : ConcRead(w)
    \/ \E w \in Writers : ConcWrite(w)

SpecConc == InitConc /\ [][NextConc]_vars

(***************************************************************************)
(* Vocabulary of the properties.                                           *)
(***************************************************************************)
OptSet(opts) == {opts[i] : i \in 1..Len(opts)}

Keys(opts) == {opts[i][1] : i \in 1..Len(opts)}

SectionCount(config, name) == Cardinality({i \in 1..Len(config) : config[i].name = name})

\* the options of a section of a parsed file, none when it has no such section
SectionOpts(config, name) == IF has_section(config, name) THEN items(config, name) ELSE <<>>

\* _get_aws_profile has been through its lookup in this run
Resolved == profile_opts.kind # "None"

NothingCalled ==
    /\ loadCalls = 0
    /\ frozenCalls = 0
    /\ authCalls = 0
    /\ exchangeCalls = 0
    /\ cloneCalls = 0

NothingWritten ==
    /\ credWrites = 0
    /\ configWrites = 0
    /\ credFile = credAtStart
    /\ configFile = configAtStart

CanonicalKeys == {"region", "aws_access_key_id", "aws_secret_access_key", "aws_session_token"}

StoredCredentials ==
    { <<"region", GetKey(profile_opts.opts, "region", AWS_DEFAULT_REGION)>>,
      <<"aws_access_key_id", credentials.accessKeyId>>,
      <<"aws_secret_access_key", credentials.secretAccessKey>>,
      <<"aws_session_token", credentials.sessionToken>> }

\* C1: once _store_aws_credentials has completed, the credentials file has
\* one section of the given name, and read back it holds exactly the four
\* canonical keys with the values of the call: nothing of an earlier section
\* of that name survives and no other key is introduced.
C1_StoreReplacesSection ==
    credWrites > 0 =>
        LET cred == read_config(credFile)
            stored == SectionOpts(cred, storedSection)
        IN  /\ SectionCount(cred, storedSection) = 1
            /\ Len(stored) = 4
            /\ Keys(stored) = CanonicalKeys
            /\ OptSet(stored) = StoredCredentials

\* C1 witness: a store has completed over a section that existed before with
\* a key outside the four canonical ones.
C1_Witness ==
    /\ credWrites > 0
    /\ Keys(SectionOpts(read_config(credAtStart), storedSection)) \ CanonicalKeys # {}

\* C2: in a run for a profile other than "default" that has stored, the
\* credentials are under the section named after the profile, and a run
\* that ended well has cloned the profile's section into "default" of the
\* configuration file.
C2_StoredUnderOwnSection ==
    (profile_name # "default" /\ credWrites > 0) =>
        /\ storedSection = profile_name
        /\ OptSet(SectionOpts(read_config(credFile), profile_name)) = StoredCredentials
        /\ (outcome = "ok" =>
               SectionOpts(read_config(configFile), "default")
                   = SectionOpts(read_config(configAtStart), add_prefix(profile_name)))

\* C3: in a run of set_aws_creds("default") the clone step never runs and
\* the configuration file is never written; what is stored is stored in the
\* "default" section of the credentials file, and a run that resolved an
\* SSO profile and ended well has stored exactly once.
C3_DefaultWritesDirectly ==
    (profile_name = "default" /\ outcome # "none") =>
        /\ pc # "clone"
        /\ cloneCalls = 0
        /\ configWrites = 0
        /\ configFile = configAtStart
        /\ (credWrites > 0 =>
               /\ storedSection = "default"
               /\ OptSet(SectionOpts(read_config(credFile), "default")) = StoredCredentials)
        /\ ((outcome = "ok" /\ profile_opts.kind = "dict") =>
               credWrites = 1 /\ returned = "credentials")

\* C3 witness: a run for "default", an SSO profile, has stored and ended well.
C3_Witness ==
    /\ profile_name = "default"
    /\ outcome = "ok"
    /\ profile_opts.kind = "dict"
    /\ credWrites = 1

C5_NotSsoShortCircuits ==
    Resolved =>
        LET config == read_config(configAtStart)
        IN  (/\ has_section(config, add_prefix(profile_name))
             /\ ~HasKey(items(config, add_prefix(profile_name)), "sso_session")) =>
                /\ profile_opts.kind = "NotSSO"
                /\ pc = "done"
                /\ outcome = "ok"
                /\ returned = "None"
                /\ NothingCalled
                /\ NothingWritten

\* C5 witness: a run over an existing section without sso_session has ended.
C5_Witness ==
    /\ profile_opts.kind = "NotSSO"
    /\ pc = "done"
    /\ Keys(SectionOpts(read_config(configAtStart), add_prefix(profile_name))) # {}

FirstLoadFailed == firstLoad \in {"missing", "load_failed", "frozen_failed"}

\* C6: the Authenticator runs at most once in a run; when the first load
\* found no token or raised TokenRetrievalError, it has run exactly once,
\* after a successful login a second load attempt was made on the provider,
\* and a run that then ended without a token ended in TokenRetrievalError.
C6_OneLoginThenReload ==
    /\ authCalls <= 1
    /\ (FirstLoadFailed /\ pc \notin {"load", "spawn"}) => authCalls = 1
    /\ (FirstLoadFailed /\ pc = "done" /\ outcome # "CalledProcessError") =>
          /\ frozenCalls = (IF firstLoad = "frozen_failed" THEN 2 ELSE 1)
          /\ (auth_token = NoToken => outcome = "TokenRetrievalError")

\* C7: a token that _get_sso_cached_login returned without a login in the
\* same call expires after the current time.
C7_NoExpiredTokenWithoutLogin ==
    (auth_token # NoToken /\ authCalls = 0) => auth_token.expiration > now

\* C8: when the cached token loaded at the first attempt, the call returns
\* that token without a login; the warning is printed when the token
\* expires within 15 minutes from now, and not when it expires later.
C8_WarnsInsideWindow ==
    (firstLoad = "ok" /\ auth_token # NoToken) =>
        /\ auth_token = tokenStore
        /\ authCalls = 0
        /\ ((now < tokenStore.expiration /\ tokenStore.expiration <= now + 15) => warned)
        /\ (tokenStore.expiration > now + 15 => ~warned)

\* C8 witness: a token that expires exactly 15 minutes from now was loaded
\* at the first attempt and returned with the warning.
C8_Witness ==
    /\ firstLoad = "ok"
    /\ auth_token = tokenStore
    /\ auth_token.expiration = now + 15
    /\ warned

ClonedNow == cloneCalls = 1 /\ configWrites = 1

\* C9, as stated: after the clone the "default" section has the keys and
\* values of the source profile as _get_aws_profile resolves it.
C9_DefaultEqualsResolved ==
    ClonedNow =>
        OptSet(SectionOpts(read_config(configFile), "default"))
            = OptSet(get_aws_profile(configAtStart, profile_name).opts)

\* C9, amended: after the clone there is one "default" section, and it has
\* the keys and values of the source profile's own section as read at clone
\* time, in the same order; nothing of an earlier "default" survives and
\* the keys of the sso-session section are not copied.
C9_DefaultEqualsSourceSection ==
    ClonedNow =>
        LET config == read_config(configFile)
        IN  /\ SectionCount(config, "default") = 1
            /\ SectionOpts(config, "default")
                  = SectionOpts(read_config(configAtStart), add_prefix(profile_name))

\* C9 witness: a clone has completed over a "default" section that had a key
\* the source profile's section has not.
C9_Witness ==
    /\ ClonedNow
    /\ LET config == read_config(configAtStart)
       IN  Keys(SectionOpts(config, "default"))
              \ Keys(SectionOpts(config, add_prefix(profile_name))) # {}

\* C10: a run that looked up a profile whose qualified section is absent
\* has ended with exit status 1 at that step, with no call of the token
\* provider, the Authenticator or the exchange, no write and no result.
C10_ProfileNotFound ==
    (Resolved /\ ~has_section(read_config(configAtStart), add_prefix(profile_name))) =>
        /\ profile_opts.kind = "exit1"
        /\ pc = "done"
        /\ outcome = "exit1"
        /\ returned = "None"
        /\ NothingCalled
        /\ NothingWritten

\* C10 witness: a run ended at the lookup of an absent section.
C10_Witness ==
    /\ profile_opts.kind = "exit1"
    /\ outcome = "exit1"
    /\ ~has_section(read_config(configAtStart), add_prefix(profile_name))

C12_NoRetryNoPartialWrite ==
    /\ outcome = "CalledProcessError" =>
          pc = "done" /\ authCalls = 1 /\ exchangeCalls = 0 /\ NothingWritten
    /\ outcome = "ClientError" =>
          pc = "done" /\ authCalls <= 1 /\ exchangeCalls = 1 /\ NothingWritten
    /\ (credWrites > 0 \/ configWrites > 0
            \/ credFile # credAtStart \/ configFile # configAtStart) =>
          /\ profile_opts.kind = "dict"
          /\ auth_token # NoToken
          /\ credentials # NoCreds
          /\ exchangeCalls = 1
    /\ auth_token # NoToken => profile_opts.kind = "dict"
    /\ credentials # NoCreds => auth_token # NoToken

\* C12 witness: the exchange failed in a run that had logged in.
C12_Witness ==
    /\ outcome = "ClientError"
    /\ authCalls = 1
    /\ exchangeCalls = 1

\* C13: once the clone step has run, whether it wrote the configuration
\* file or failed, the credentials file holds the section the store wrote
\* in this run; a failed clone leaves the configuration file as it was, and
\* the store has not touched the configuration file.
C13_StoreSurvivesFailedClone ==
    /\ (credWrites > 0 /\ pc = "clone") => configFile = configAtStart
    /\ cloneCalls = 1 =>
          /\ credWrites = 1
          /\ storedSection = "default"
          /\ OptSet(SectionOpts(read_config(credFile), storedSection)) = StoredCredentials
          /\ (outcome = "OSError" => configWrites = 0 /\ configFile = configAtStart)

\* C13 witness: the clone failed after a store that changed the credentials
\* file.
C13_Witness ==
    /\ cloneCalls = 1
    /\ outcome = "OSError"
    /\ credWrites = 1
    /\ credFile # credAtStart

\* a step that changes a file leaves, as ConfigParser reads the file, every
\* section but the written one with its keys, its values and its place
\* among the others
FrameStep ==
    /\ configFile' # configFile =>
          remove_section(read_config(configFile'), "default")
              = remove_section(read_config(configFile), "default")
    /\ credFile' # credFile =>
          remove_section(read_config(credFile'), storedSection')
              = remove_section(read_config(credFile), storedSection')

\* C14: every step of every run leaves the sections of the configuration
\* file other than "default", and the sections of the credentials file
\* other than the one being stored, with the same keys and values in the
\* same order.
C14_Frame == [][FrameStep]_vars

\* C14 witness: in one run the store rewrote a credentials file that has
\* another section with keys, and the clone rewrote a configuration file
\* that has other sections.
C14_Witness ==
    /\ credWrites = 1
    /\ configWrites = 1
    /\ credFile # credAtStart
    /\ configFile # configAtStart
    /\ LET cred == read_config(credFile)
       IN  \E i \in 1..Len(cred) : cred[i].name # storedSection /\ cred[i].opts # <<>>
    /\ remove_section(read_config(configFile), "default") # <<>>

\* the run has stored, cloned where it had to, and returned the credentials
Succeeded == outcome = "ok" /\ returned = "credentials"

\* C16: when a run has succeeded, resolving "default" gives an SSO profile
\* with the attributes the run resolved for its profile, the same that
\* resolving the profile gives now, and the "default" section of the
\* credentials file holds the credentials of the run.  This holds at the
\* end of every successful run of a sequence, so both "default" sections
\* follow the profile activated last.
C16_DefaultFollowsActivated ==
    Succeeded =>
        LET default == get_aws_profile(configFile, "default")
        IN  /\ default.kind = "dict"
            /\ default = profile_opts
            /\ default = get_aws_profile(configFile, profile_name)
            /\ OptSet(SectionOpts(read_config(credFile), "default")) = StoredCredentials

\* C16 witness: a run for a profile other than "default" has succeeded
\* after a successful run for another profile with other attributes.
C16_Witness ==
    /\ Succeeded
    /\ profile_name # "default"
    /\ prev.ok
    /\ prev.creds # NoCreds
    /\ prev.name \notin {"default", profile_name}
    /\ get_aws_profile(configFile, prev.name) # profile_opts

\* C17: when a run has succeeded right after a successful run for the same
\* profile that got the same credentials, both files are, line for line,
\* as they were when the run began; the same holds of two runs in a row
\* that found the profile not to be an SSO profile.
C17_SecondRunChangesNothing ==
    (outcome = "ok" /\ prev.ok /\ prev.name = profile_name /\ prev.creds = credentials) =>
        /\ credFile = credAtStart
        /\ configFile = configAtStart

\* C17 witness: the second of two successful runs for one profile other
\* than "default", with the same credentials, has stored and cloned.
C17_Witness ==
    /\ Succeeded
    /\ prev.ok
    /\ prev.name = profile_name
    /\ prev.creds = credentials
    /\ profile_name # "default"
    /\ credWrites = 1
    /\ configWrites = 1

AllWritten == \A w \in Writers : writers[w].pc = "done"

\* the four options a caller's section gets
WrittenBy(w) ==
    { <<"region", GetKey(writers[w].opts, "region", AWS_DEFAULT_REGION)>>,
      <<"aws_access_key_id", writers[w].creds.accessKeyId>>,
      <<"aws_secret_access_key", writers[w].creds.secretAccessKey>>,
      <<"aws_session_token", writers[w].creds.sessionToken>> }

====
